---- MODULE Spec2Model ----
(***************************************************************************)
(* A model of mcp-rpc (packages/mcp-rpc/src/index.ts, tool.ts): the tool   *)
(* builder, the tool tree resolver, the RPC registry, the handler factory  *)
(* and the callbacks that register() installs on a server.                 *)
(*                                                                         *)
(* Strings that the code builds (tool names) are sequences of one-char     *)
(* strings, so that concatenation, emptiness (JS truthiness) and the       *)
(* presence of the separator are all visible to the model.                 *)
(***************************************************************************)
EXTENDS Integers, Sequences, FiniteSets, TLC

VARIABLES
  builders,    \* heap of ToolBuilder objects: Seq of [description, inputSchema]
  toolObjs,    \* heap of Tool objects: Seq of [builder, fn]
  tree,        \* the caller's tool tree (a nested JS object)
  rpc,         \* the RPC registry: [createContext]
  handler,     \* the object returned by rpc.handler(tree), or NoHandler
  servers,     \* per server: the sequence of server.tool(...) installations
  calls,       \* invocations of installed callbacks, each with its position
  edits        \* number of edits made to the tree so far

vars == <<builders, toolObjs, tree, rpc, handler, servers, calls, edits>>

-----------------------------------------------------------------------------
(* Bounds of the model *)

MaxNodes == 3        \* entries (at all levels) of a tool tree under construction
MaxDepth == 3        \* nesting levels of a tool tree
MaxBuilders == 2     \* ToolBuilder objects allocated
MaxTools == 3        \* Tool objects allocated
MaxEdits == 1        \* edits of a tree that a handler may have been created from
MaxInstalls == 4     \* server.tool installations held by all servers together
MaxCalls == 1        \* callback invocations

-----------------------------------------------------------------------------
(* Strings *)

Dot == <<".">>
Digits == {"0", "1", "2", "3", "4", "5", "6", "7", "8", "9"}

\* keys the caller may use in a tree: the empty string, plain names,
\* integer-like names and a name that holds the separator
KeyPool == { <<>>, <<"a">>, <<"b">>, <<"1">>, <<"a", ".", "b">> }

DigitVal(c) ==
  CASE c = "0" -> 0 [] c = "1" -> 1 [] c = "2" -> 2 [] c = "3" -> 3
    [] c = "4" -> 4 [] c = "5" -> 5 [] c = "6" -> 6 [] c = "7" -> 7
    [] c = "8" -> 8 [] c = "9" -> 9

RECURSIVE NumVal(_)
NumVal(s) ==
  IF s = <<>> THEN 0 ELSE 10 * NumVal(SubSeq(s, 1, Len(s) - 1)) + DigitVal(s[Len(s)])

\* a canonical numeric string: the property keys a JS object enumerates first
IsIndex(s) ==
  /\ s # <<>>
  /\ \A i \in 1..Len(s) : s[i] \in Digits
  /\ (s[1] = "0" => Len(s) = 1)

-----------------------------------------------------------------------------
(* Tool builder and Tool (tool.ts) *)

NoSchema == "undefined"
Schemas == {"S1", "S2"}
Descriptions == {"dA", "dB"}
Fns == {"echo", "boom"}

NoTool == 0

\* new ToolBuilder(description): inputSchema starts undefined
NewBuilder(description) == [description |-> description, inputSchema |-> NoSchema]

\* new Tool(builder, fn): the Tool keeps a reference to its builder
NewTool(b, fn) == [builder |-> b, fn |-> fn]

\* get description() { return this.builder.description }
ToolDescription(t) == builders[toolObjs[t].builder].description

\* get input() { return this.builder.inputSchema }
ToolInput(t) == builders[toolObjs[t].builder].inputSchema

-----------------------------------------------------------------------------
(* The tool tree: a JS object is a sequence of entries in insertion order, *)
(* with unique keys.  An entry holds a Tool (tool # NoTool) or a nested    *)
(* object (tool = NoTool, sub its entries).                                *)

Leaf(k, t) == [key |-> k, tool |-> t, sub |-> <<>>]
Sub(k, s) == [key |-> k, tool |-> NoTool, sub |-> s]

IsTool(e) == e.tool # NoTool

HasKey(obj, k) == \E i \in 1..Len(obj) : obj[i].key = k
IndexOfKey(obj, k) == CHOOSE i \in 1..Len(obj) : obj[i].key = k

\* obj[k] = e: an existing property keeps its place, a new one goes last
Put(obj, e) ==
  IF HasKey(obj, e.key)
  THEN [obj EXCEPT ![IndexOfKey(obj, e.key)] = e]
  ELSE Append(obj, e)

\* delete obj[k]
Delete(obj, k) == SelectSeq(obj, LAMBDA e : e.key # k)

RECURSIVE Size(_)
Size(obj) ==
  IF obj = <<>> THEN 0
  ELSE 1 + Size(Head(obj).sub) + Size(Tail(obj))

\* the key paths that lead to a nested object, the root included
RECURSIVE SubPathsFrom(_, _)
SubPathsFrom(obj, i) ==
  IF i > Len(obj) THEN {}
  ELSE (IF IsTool(obj[i]) THEN {}
        ELSE { <<obj[i].key>> \o p : p \in ({<<>>} \cup SubPathsFrom(obj[i].sub, 1)) })
       \cup SubPathsFrom(obj, i + 1)

SubPaths(obj) == {<<>>} \cup SubPathsFrom(obj, 1)

RECURSIVE PutAt(_, _, _)
PutAt(obj, path, e) ==
  IF path = <<>> THEN Put(obj, e)
  ELSE LET i == IndexOfKey(obj, Head(path))
       IN [obj EXCEPT ![i] = Sub(obj[i].key, PutAt(obj[i].sub, Tail(path), e))]

RECURSIVE DeleteAt(_, _, _)
DeleteAt(obj, path, k) ==
  IF path = <<>> THEN Delete(obj, k)
  ELSE LET i == IndexOfKey(obj, Head(path))
       IN [obj EXCEPT ![i] = Sub(obj[i].key, DeleteAt(obj[i].sub, Tail(path), k))]

\* Object.entries(obj): integer-like keys first, in ascending numeric
\* order, then the other keys in insertion order
ObjectEntries(obj) ==
  SortSeq(SelectSeq(obj, LAMBDA e : IsIndex(e.key)),
          LAMBDA x, y : NumVal(x.key) < NumVal(y.key))
  \o SelectSeq(obj, LAMBDA e : ~IsIndex(e.key))

-----------------------------------------------------------------------------
(* resolveTools (index.ts 13-30) *)

\* the optional parameter parentName: undefined, or a string
Undefined == [undef |-> TRUE, str |-> <<>>]
Str(s) == [undef |-> FALSE, str |-> s]

\* JS truthiness of `parentName`: undefined and "" are both falsy
Truthy(p) == ~p.undef /\ p.str # <<>>

\* const fullName = parentName ? `${parentName}.${name}` : name
FullName(parentName, name) ==
  IF Truthy(parentName) THEN parentName.str \o Dot \o name ELSE name

RECURSIVE ResolveEntries(_, _)
ResolveEntries(entries, parentName) ==
  IF entries = <<>> THEN <<>>
  ELSE LET e == Head(entries)
           fullName == FullName(parentName, e.key)
       IN (IF IsTool(e)
           THEN << <<fullName, e.tool>> >>
           ELSE ResolveEntries(ObjectEntries(e.sub), Str(fullName)))
          \o ResolveEntries(Tail(entries), parentName)

resolveTools(tools, parentName) == ResolveEntries(ObjectEntries(tools), parentName)

-----------------------------------------------------------------------------
(* createTools (index.ts 32-36) *)

\* Object.fromEntries: entries are set one after the other, the last value
\* written under a key is the one kept
RECURSIVE FromEntries(_)
FromEntries(pairs) ==
  IF pairs = <<>> THEN <<>>
  ELSE LET n == Len(pairs)
           rest == FromEntries(SubSeq(pairs, 1, n - 1))
       IN (pairs[n][1] :> pairs[n][2]) @@ rest

SummaryOf(t) == [description |-> ToolDescription(t)]

\* a variant that keeps the first value written under a key
createToolsKeepFirst(tools) ==
  FromEntries([i \in 1..Len(tools) |->
                 <<tools[Len(tools) + 1 - i][1], SummaryOf(tools[Len(tools) + 1 - i][2])>>])

createTools(tools) ==
  FromEntries([i \in 1..Len(tools) |-> <<tools[i][1], SummaryOf(tools[i][2])>>])

-----------------------------------------------------------------------------
(* The state *)

NoHandler == [_tools |-> <<>>, tools |-> <<>>, declared |-> <<>>, created |-> FALSE]
NoFactory == "undefined"
Servers == {"s1", "s2"}

ToolIds == 1..Len(toolObjs)

\* two builders and the Tools made from them, as after
\*   rpc.tool("dA").input(S1).handler(echo), rpc.tool("dB").handler(boom)
SomeBuilders ==
  << [description |-> "dA", inputSchema |-> "S1"],
     [description |-> "dB", inputSchema |-> NoSchema] >>
SomeTools == << NewTool(1, "echo"), NewTool(2, "boom") >>

-----------------------------------------------------------------------------
(* The caller builds and edits the tree *)

TreeEntries == { Leaf(k, t) : k \in KeyPool, t \in ToolIds }
                 \cup { Sub(k, <<>>) : k \in KeyPool }

TreeWrites(obj) ==
  { PutAt(obj, path, e) : path \in { q \in SubPaths(obj) : Len(q) < MaxDepth },
                          e \in TreeEntries }
  \cup { DeleteAt(obj, path, k) : path \in SubPaths(obj), k \in KeyPool }

\* tree[...][key] = value, or delete tree[...][key], before rpc.handler(tree)
BuildTree ==
  /\ ~handler.created
  /\ \E t \in TreeWrites(tree) :
       /\ t # tree
       /\ Size(t) <= MaxNodes
       /\ tree' = t
  /\ UNCHANGED <<builders, toolObjs, rpc, handler, servers, calls, edits>>

\* keys of the entries added later on
EditKeys == { <<"a">>, <<"1">> }

TreeEdits(obj) ==
  { PutAt(obj, path, Leaf(k, t)) : path \in SubPaths(obj), k \in EditKeys, t \in ToolIds }
  \cup { DeleteAt(obj, path, k) : path \in SubPaths(obj), k \in KeyPool }

\* writes made to a tree that rpc.handler may already have read: an entry
\* is added, replaced or removed
EditTree ==
  /\ edits < MaxEdits
  /\ \E t \in TreeEdits(tree) :
       /\ t # tree
       /\ tree' = t
  /\ edits' = edits + 1
  /\ UNCHANGED <<builders, toolObjs, rpc, handler, servers, calls>>

-----------------------------------------------------------------------------
(* createHandlerFactory: rpc.handler(tools) (index.ts 55-79) *)

\* `declared` remembers the argument as it was when handler(tools) ran
NewHandler(tools) ==
  LET _tools == resolveTools(tools, Undefined)
  IN [_tools |-> _tools, tools |-> createTools(_tools),
      declared |-> tools, created |-> TRUE]

CreateHandler ==
  /\ handler' = NewHandler(tree)
  /\ handler' # handler
  /\ UNCHANGED <<builders, toolObjs, tree, rpc, servers, calls, edits>>

-----------------------------------------------------------------------------
(* Specification of tree resolution: the caller builds any tree within the *)
(* bounds, then calls rpc.handler(tree).                                   *)

InitResolve ==
  /\ builders = SomeBuilders
  /\ toolObjs = SomeTools
  /\ tree = <<>>
  /\ rpc = [createContext |-> NoFactory]
  /\ handler = NoHandler
  /\ servers = [s \in Servers |-> <<>>]
  /\ calls = <<>>
  /\ edits = 0

NextResolve == BuildTree \/ CreateHandler

SpecResolve == InitResolve /\ [][NextResolve]_vars

NamesOfPairs(list) == [i \in 1..Len(list) |-> list[i][1]]

-----------------------------------------------------------------------------
(* What the claims say of flattening, stated without the code *)

\* keys joined with "." (Array.prototype.join)
RECURSIVE JoinKeys(_)
JoinKeys(keys) ==
  IF Len(keys) = 1 THEN keys[1]
  ELSE JoinKeys(SubSeq(keys, 1, Len(keys) - 1)) \o Dot \o keys[Len(keys)]

\* depth-first pre-order of the entries as declared, one pair per leaf
RECURSIVE DeclaredPreOrder(_, _)
DeclaredPreOrder(obj, path) ==
  IF obj = <<>> THEN <<>>
  ELSE LET e == Head(obj)
           p == Append(path, e.key)
       IN (IF IsTool(e) THEN << <<JoinKeys(p), e.tool>> >>
           ELSE DeclaredPreOrder(e.sub, p))
          \o DeclaredPreOrder(Tail(obj), path)

RECURSIVE AllKeys(_)
AllKeys(obj) ==
  IF obj = <<>> THEN {}
  ELSE {Head(obj).key} \cup AllKeys(Head(obj).sub) \cup AllKeys(Tail(obj))

HasDot(k) == \E i \in 1..Len(k) : k[i] = "."

Distinct(seq) == \A i, j \in 1..Len(seq) : i # j => seq[i] # seq[j]

\* C1: resolve(tree) is one (name, Tool) pair per leaf, the name being the
\* keys on the path joined with ".", in depth-first pre-order of the
\* entries as declared.
C1_FlattenDeclaredPreOrder ==
  handler.created => handler._tools = DeclaredPreOrder(handler.declared, <<>>)

\* C10: when no key holds ".", the flattened names are pairwise distinct,
\* and the summary has as many entries as the flattened list.
C10_NamesDistinct ==
  (handler.created /\ \A k \in AllKeys(handler.declared) : ~HasDot(k))
    => /\ Distinct(NamesOfPairs(handler._tools))
       /\ Cardinality(DOMAIN handler.tools) = Len(handler._tools)

\* C2 as stated: the summary's keys are exactly the flattened names, and
\* each pair's name maps to a record of that pair's Tool's description only.
C2_SummaryOfEachTool ==
  handler.created =>
    /\ DOMAIN handler.tools = { handler._tools[i][1] : i \in 1..Len(handler._tools) }
    /\ \A i \in 1..Len(handler._tools) :
         handler.tools[handler._tools[i][1]]
           = [description |-> ToolDescription(handler._tools[i][2])]

LastIndexOf(list, name) ==
  CHOOSE i \in 1..Len(list) :
    /\ list[i][1] = name
    /\ \A j \in (i + 1)..Len(list) : list[j][1] # name

\* C2 (amended): the summary's keys are exactly the flattened names, and
\* each name maps to a record of only the description of the last pair
\* flattened under that name.
C2_SummaryOfLastTool ==
  handler.created =>
    /\ DOMAIN handler.tools = { handler._tools[i][1] : i \in 1..Len(handler._tools) }
    /\ \A i \in 1..Len(handler._tools) :
         handler.tools[handler._tools[i][1]]
           = [description |->
                ToolDescription(
                  handler._tools[LastIndexOf(handler._tools, handler._tools[i][1])][2])]

\* a handler whose flattened list holds one name twice, for two Tools of
\* different descriptions
C2_Witness ==
  /\ handler.created
  /\ \E i, j \in 1..Len(handler._tools) :
       /\ i < j
       /\ handler._tools[i][1] = handler._tools[j][1]
       /\ ToolDescription(handler._tools[i][2]) # ToolDescription(handler._tools[j][2])

-----------------------------------------------------------------------------
(* createToolFactory and the builder's methods (index.ts 81-83, tool.ts) *)

\* rpc.tool(description)
Tool(description) ==
  /\ Len(builders) < MaxBuilders
  /\ builders' = Append(builders, NewBuilder(description))
  /\ UNCHANGED <<toolObjs, tree, rpc, handler, servers, calls, edits>>

\* builder.input(schema)
BuilderInput(b, schema) ==
  /\ builders' = [builders EXCEPT ![b].inputSchema = schema]
  /\ builders' # builders
  /\ UNCHANGED <<toolObjs, tree, rpc, handler, servers, calls, edits>>

\* builder.handler(fn)
BuilderHandler(b, fn) ==
  /\ Len(toolObjs) < MaxTools
  /\ toolObjs' = Append(toolObjs, NewTool(b, fn))
  /\ UNCHANGED <<builders, tree, rpc, handler, servers, calls, edits>>

InitTool ==
  /\ builders = <<>>
  /\ toolObjs = <<>>
  /\ tree = <<>>
  /\ rpc = [createContext |-> NoFactory]
  /\ handler = NoHandler
  /\ servers = [s \in Servers |-> <<>>]
  /\ calls = <<>>
  /\ edits = 0

NextTool ==
  \/ \E d \in Descriptions : Tool(d)
  \/ \E b \in 1..Len(builders), sc \in Schemas : BuilderInput(b, sc)
  \/ \E b \in 1..Len(builders), fn \in Fns : BuilderHandler(b, fn)

SpecTool == InitTool /\ [][NextTool]_vars

\* C7: the description and inputSchema that an existing Tool exposes are
\* the same after every step.
C7_ToolImmutable ==
  [][\A t \in ToolIds :
       /\ builders'[toolObjs'[t].builder].description = ToolDescription(t)
       /\ builders'[toolObjs'[t].builder].inputSchema = ToolInput(t)]_vars

-----------------------------------------------------------------------------
(* RPC registry (index.ts 85-110) *)

Factories == {"user", "org"}

\* rpc.context(createContext)
Context(f) ==
  /\ rpc' = [rpc EXCEPT !.createContext = f]
  /\ rpc' # rpc
  /\ UNCHANGED <<builders, toolObjs, tree, handler, servers, calls, edits>>

-----------------------------------------------------------------------------
(* handler.register(server) (index.ts 60-73) *)

\* the list that register iterates: the one resolved by rpc.handler(tools)
RegisterListLive(h) == resolveTools(tree, Undefined)
RegisterList(h) == h._tools

\* one server.tool(name, description, input, callback) call; the callback
\* closes over `tool`; `regFactory` remembers rpc.createContext as it was
\* when the callback was installed
Installation(pair) ==
  [name |-> pair[1], description |-> ToolDescription(pair[2]),
   inputSchema |-> ToolInput(pair[2]), tool |-> pair[2],
   regFactory |-> rpc.createContext]

Installations(list) == [i \in 1..Len(list) |-> Installation(list[i])]

\* the servers whose table a register(server) call writes
RegisterTargetsAll(server) == Servers
RegisterTargets(server) == {server}

TotalInstalls(sv) == Len(sv["s1"]) + Len(sv["s2"])

Register(server) ==
  /\ handler.created
  /\ servers' = [s \in Servers |->
                   IF s \in RegisterTargets(server)
                   THEN servers[s] \o Installations(RegisterList(handler))
                   ELSE servers[s]]
  /\ servers' # servers
  /\ TotalInstalls(servers') <= MaxInstalls
  /\ UNCHANGED <<builders, toolObjs, tree, rpc, handler, calls, edits>>

\* the server's owner unregisters an entry of its tool table
ServerRemove(server, i) ==
  /\ i \in 1..Len(servers[server])
  /\ servers' = [servers EXCEPT ![server] =
                   SubSeq(@, 1, i - 1) \o SubSeq(@, i + 1, Len(@))]
  /\ UNCHANGED <<builders, toolObjs, tree, rpc, handler, calls, edits>>

-----------------------------------------------------------------------------
(* Specification of registration: a handler is created from a tree, the   *)
(* tree is edited, the handler is registered on servers, and the servers' *)
(* tables are changed by their owners.                                     *)

KA == <<"a">>
KB == <<"b">>

\* { a: Tool1, b: { a: Tool2 } },  { a: { b: { a: Tool1 } } },
\* { b: Tool2, "": { b: Tool1 } }
ExampleTrees ==
  { << Leaf(KA, 1), Sub(KB, << Leaf(KA, 2) >>) >>,
    << Sub(KA, << Sub(KB, << Leaf(KA, 1) >>) >>) >>,
    << Leaf(KB, 2), Sub(<<>>, << Leaf(KB, 1) >>) >> }

InitReg ==
  /\ builders = SomeBuilders
  /\ toolObjs = SomeTools
  /\ tree \in ExampleTrees
  /\ rpc = [createContext |-> NoFactory]
  /\ handler = NoHandler
  /\ servers = [s \in Servers |-> <<>>]
  /\ calls = <<>>
  /\ edits = 0

NextReg ==
  \/ CreateHandler
  \/ EditTree
  \/ \E s \in Servers : Register(s)
  \/ \E s \in Servers, i \in 1..MaxInstalls : ServerRemove(s, i)

SpecReg == InitReg /\ [][NextReg]_vars

Names(table) == [i \in 1..Len(table) |-> table[i].name]

HoldsAll(table, list) ==
  \A i \in 1..Len(list) : \E j \in 1..Len(table) : table[j].name = list[i][1]

\* C6: a step that changes one server's table leaves every other server's
\* table and the handler's flattened list unchanged, and after a register
\* call the server holds a callback for every flattened name.
C6_ServersIndependent ==
  [][\A s1 \in Servers :
       servers'[s1] # servers[s1] =>
         /\ \A s2 \in Servers \ {s1} : servers'[s2] = servers[s2]
         /\ handler' = handler
         /\ Len(servers'[s1]) > Len(servers[s1]) => HoldsAll(servers'[s1], handler._tools)]_vars

\* both servers were registered, and an entry was then removed from s2 only
C6_Witness ==
  /\ Len(handler._tools) >= 2
  /\ Names(servers["s1"]) = NamesOfPairs(handler._tools)
  /\ servers["s2"] # <<>>
  /\ Len(servers["s2"]) < Len(handler._tools)

Added(old, new) == SubSeq(new, Len(old) + 1, Len(new))

\* C9: the list is resolved once, by rpc.handler(tree); every register call
\* installs, after what the server held, one callback per pair of that
\* list, in its order and under its names, whatever the tree has become.
C9_RegisterInstallsResolvedList ==
  [][\A s \in Servers :
       Len(servers'[s]) > Len(servers[s]) =>
         /\ handler' = handler
         /\ handler._tools = resolveTools(handler.declared, Undefined)
         /\ SubSeq(servers'[s], 1, Len(servers[s])) = servers[s]
         /\ [i \in 1..Len(Added(servers[s], servers'[s])) |->
               <<Added(servers[s], servers'[s])[i].name,
                 Added(servers[s], servers'[s])[i].tool>>] = handler._tools]_vars

\* a server holds the names resolved at rpc.handler(tree) time although the
\* tree, edited since, now resolves to other names
C9_Witness ==
  /\ handler.created
  /\ edits > 0
  /\ Len(handler._tools) >= 2
  /\ NamesOfPairs(resolveTools(tree, Undefined)) # NamesOfPairs(handler._tools)
  /\ \E s \in Servers : Names(servers[s]) = NamesOfPairs(handler._tools)

-----------------------------------------------------------------------------
(* The callback installed by register (index.ts 66-70):                    *)
(*   async (input, { authInfo }) => {                                      *)
(*     const ctx = await rpc.createContext?.({ authInfo });                *)
(*     return tool.fn({ ctx, input });                                     *)
(*   }                                                                     *)

Inputs == {"i1", "i2"}
AuthInfos == {"u1", "u2"}

UndefinedCtx == "undefined"
Pending == "pending"

\* What a context factory does with { authInfo }: it returns a value, throws,
\* or returns a promise that is fulfilled or rejected later.
\*   user: authInfo u1 -> returns { userId: "123" };  u2 -> throws ErrAuth
\*   org:  an async function; u1 -> fulfils with the org context;
\*         u2 -> rejects with ErrAuth
FactoryOutcome(f, authInfo) ==
  CASE f = "user" /\ authInfo = "u1" -> [kind |-> "return", val |-> "userId123"]
    [] f = "user" /\ authInfo = "u2" -> [kind |-> "throw", val |-> "ErrAuth"]
    [] f = "org" /\ authInfo = "u1" -> [kind |-> "fulfil", val |-> "org1"]
    [] f = "org" /\ authInfo = "u2" -> [kind |-> "reject", val |-> "ErrAuth"]

\* What a tool's fn does with { ctx, input }:
\*   echo: i1 -> returns the content built from ctx and input;
\*         i2 -> returns a promise fulfilled with it
\*   boom: i1 -> throws ErrTool;  i2 -> returns a promise rejected with it
FnOutcome(fn, ctx, input) ==
  CASE fn = "echo" /\ input = "i1" -> [kind |-> "return", val |-> <<"content", ctx, input>>]
    [] fn = "echo" /\ input = "i2" -> [kind |-> "fulfil", val |-> <<"content", ctx, input>>]
    [] fn = "boom" /\ input = "i1" -> [kind |-> "throw", val |-> <<"ErrTool">>]
    [] fn = "boom" /\ input = "i2" -> [kind |-> "reject", val |-> <<"ErrTool">>]

\* rpc.createContext, read when the callback runs
ReadFactoryAtRegister(entry) == entry.regFactory
ReadFactory(entry) == rpc.createContext

\* a variant that does not wait: the promise itself is taken as the value
AwaitedNotAwaited(outcome) ==
  IF outcome.kind = "return" THEN [state |-> "fulfilled", val |-> outcome.val]
  ELSE [state |-> "fulfilled", val |-> Pending]

\* the promise that `await` waits on: settled at once for a plain value
Awaited(outcome) ==
  IF outcome.kind = "return" THEN [state |-> "fulfilled", val |-> outcome.val]
  ELSE [state |-> Pending, val |-> Pending]

Settled(outcome) ==
  IF outcome.kind \in {"return", "fulfil"}
  THEN [state |-> "fulfilled", val |-> outcome.val]
  ELSE [state |-> "rejected", val |-> outcome.val]

\* The server invokes the callback of entry i of its table.  The callback
\* runs up to its `await`: it reads rpc.createContext and, if there is one,
\* calls it with { authInfo }.  `atInvoke` remembers the registry's factory
\* at this moment.
Invoke(server, i, input, authInfo) ==
  /\ Len(calls) < MaxCalls
  /\ i \in 1..Len(servers[server])
  /\ servers[server][i].tool # NoTool
  /\ LET entry == servers[server][i]
         f == ReadFactory(entry)
         base == [tool |-> entry.tool, regFactory |-> entry.regFactory,
                  atInvoke |-> rpc.createContext,
                  input |-> input, authInfo |-> authInfo,
                  factoryCalls |-> <<>>, fnCalls |-> <<>>,
                  pc |-> "awaitCtx",
                  awaited |-> [state |-> "fulfilled", val |-> UndefinedCtx],
                  result |-> <<>>]
     IN calls' = Append(calls,
          IF f = NoFactory THEN base
          ELSE LET o == FactoryOutcome(f, authInfo)
                   called == [base EXCEPT !.factoryCalls = << [fn |-> f, authInfo |-> authInfo] >>]
               IN IF o.kind = "throw"
                  THEN [called EXCEPT !.pc = "rejected", !.result = <<o.val>>,
                                      !.awaited = [state |-> "rejected", val |-> o.val]]
                  ELSE [called EXCEPT !.awaited = Awaited(o)])
  /\ UNCHANGED <<builders, toolObjs, tree, rpc, handler, servers, edits>>

\* the promise returned by the context factory settles
SettleContext(c) ==
  /\ calls[c].pc = "awaitCtx"
  /\ calls[c].awaited.state = Pending
  /\ LET fc == calls[c].factoryCalls[1]
     IN calls' = [calls EXCEPT ![c].awaited = Settled(FactoryOutcome(fc.fn, fc.authInfo))]
  /\ UNCHANGED <<builders, toolObjs, tree, rpc, handler, servers, edits>>

\* a variant that returns early when there is no context
AfterAwaitSkipsWithoutCtx(call) ==
  IF call.awaited.state = "rejected"
  THEN [call EXCEPT !.pc = "rejected", !.result = <<call.awaited.val>>]
  ELSE IF call.awaited.val = UndefinedCtx
  THEN [call EXCEPT !.pc = "resolved", !.result = <<"content", UndefinedCtx, call.input>>]
  ELSE LET ctx == call.awaited.val
           fn == toolObjs[call.tool].fn
           o == FnOutcome(fn, ctx, call.input)
           called == [call EXCEPT !.fnCalls = << [fn |-> fn, ctx |-> ctx, input |-> call.input] >>]
       IN CASE o.kind = "return" -> [called EXCEPT !.pc = "resolved", !.result = o.val]
            [] o.kind = "throw" -> [called EXCEPT !.pc = "rejected", !.result = o.val]
            [] OTHER -> [called EXCEPT !.pc = "awaitFn"]

\* a variant that catches what fn throws and returns it as an error result
AfterAwaitCatches(call) ==
  IF call.awaited.state = "rejected"
  THEN [call EXCEPT !.pc = "rejected", !.result = <<call.awaited.val>>]
  ELSE LET ctx == call.awaited.val
           fn == toolObjs[call.tool].fn
           o == FnOutcome(fn, ctx, call.input)
           called == [call EXCEPT !.fnCalls = << [fn |-> fn, ctx |-> ctx, input |-> call.input] >>]
       IN CASE o.kind = "return" -> [called EXCEPT !.pc = "resolved", !.result = o.val]
            [] o.kind = "throw" -> [called EXCEPT !.pc = "resolved", !.result = <<"isError">> \o o.val]
            [] OTHER -> [called EXCEPT !.pc = "awaitFn"]

\* what the callback does once the awaited promise has settled: a rejection
\* is thrown out of the callback; otherwise tool.fn({ ctx, input }) is called
\* and what it returns is returned
AfterAwait(call) ==
  IF call.awaited.state = "rejected"
  THEN [call EXCEPT !.pc = "rejected", !.result = <<call.awaited.val>>]
  ELSE LET ctx == call.awaited.val
           fn == toolObjs[call.tool].fn
           o == FnOutcome(fn, ctx, call.input)
           called == [call EXCEPT !.fnCalls = << [fn |-> fn, ctx |-> ctx, input |-> call.input] >>]
       IN CASE o.kind = "return" -> [called EXCEPT !.pc = "resolved", !.result = o.val]
            [] o.kind = "throw" -> [called EXCEPT !.pc = "rejected", !.result = o.val]
            [] OTHER -> [called EXCEPT !.pc = "awaitFn"]

\* the callback resumes after `await`
Resume(c) ==
  /\ calls[c].pc = "awaitCtx"
  /\ calls[c].awaited.state # Pending
  /\ calls' = [calls EXCEPT ![c] = AfterAwait(calls[c])]
  /\ UNCHANGED <<builders, toolObjs, tree, rpc, handler, servers, edits>>

\* the promise returned by tool.fn settles, and the callback's with it
SettleHandler(c) ==
  /\ calls[c].pc = "awaitFn"
  /\ LET fc == calls[c].fnCalls[1]
         o == FnOutcome(fc.fn, fc.ctx, fc.input)
     IN calls' = [calls EXCEPT ![c].pc = IF o.kind = "fulfil" THEN "resolved" ELSE "rejected",
                               ![c].result = o.val]
  /\ UNCHANGED <<builders, toolObjs, tree, rpc, handler, servers, edits>>

-----------------------------------------------------------------------------
(* Specification of invocation: the registry's factory is set and replaced, *)
(* a handler is created and registered, callbacks are invoked.             *)

InitCall ==
  /\ builders = SomeBuilders
  /\ toolObjs = SomeTools
  /\ tree = << Leaf(KA, 1), Sub(KB, << Leaf(KA, 2) >>) >>
  /\ rpc = [createContext |-> NoFactory]
  /\ handler = NoHandler
  /\ servers = [s \in Servers |-> <<>>]
  /\ calls = <<>>
  /\ edits = 0

NextCall ==
  \/ \E f \in Factories : Context(f)
  \/ CreateHandler
  \/ \E s \in Servers : Register(s)
  \/ \E s \in Servers, i \in 1..MaxInstalls, input \in Inputs, authInfo \in AuthInfos :
       Invoke(s, i, input, authInfo)
  \/ \E c \in 1..Len(calls) : SettleContext(c)
  \/ \E c \in 1..Len(calls) : Resume(c)
  \/ \E c \in 1..Len(calls) : SettleHandler(c)

SpecCall == InitCall /\ [][NextCall]_vars

\* the context a factory yields for an authInfo, once awaited
CtxOf(f, authInfo) ==
  IF f = NoFactory THEN UndefinedCtx ELSE FactoryOutcome(f, authInfo).val

FactoryFails(f, authInfo) ==
  f # NoFactory /\ FactoryOutcome(f, authInfo).kind \in {"throw", "reject"}

Done(call) == call.pc \in {"resolved", "rejected"}

\* C3: with a context factory configured, the factory is invoked exactly
\* once, with the call's authInfo; the tool's fn is invoked at most once,
\* only after the factory's computation is complete, with the awaited value
\* as ctx and the call's input; and the callback's result is fn's result.
C3_ContextThenHandler ==
  \A c \in 1..Len(calls) :
    LET call == calls[c]
        fn == toolObjs[call.tool].fn
        o == FnOutcome(fn, CtxOf(call.atInvoke, call.authInfo), call.input)
    IN call.atInvoke # NoFactory =>
         /\ call.factoryCalls = << [fn |-> call.atInvoke, authInfo |-> call.authInfo] >>
         /\ call.fnCalls # <<>> =>
              /\ ~FactoryFails(call.atInvoke, call.authInfo)
              /\ call.awaited.state = "fulfilled"
              /\ call.fnCalls = << [fn |-> fn, ctx |-> CtxOf(call.atInvoke, call.authInfo),
                                    input |-> call.input] >>
         /\ (Done(call) /\ ~FactoryFails(call.atInvoke, call.authInfo)) =>
              /\ Len(call.fnCalls) = 1
              /\ call.result = o.val
              /\ call.pc = (IF o.kind \in {"return", "fulfil"} THEN "resolved" ELSE "rejected")
         /\ (call.pc = "resolved" /\ call.atInvoke = "user" /\ fn = "echo") =>
              call.result[2] = "userId123"

\* a call that went through an asynchronous factory and an asynchronous
\* handler and was resolved with the handler's result
C3_Witness ==
  \E c \in 1..Len(calls) :
    /\ calls[c].pc = "resolved"
    /\ calls[c].atInvoke = "org"
    /\ calls[c].input = "i2"
    /\ calls[c].result = <<"content", "org1", "i2">>

\* C4: with no context factory configured, no factory is called, the
\* callback is always able to go on to the tool's fn, and once it has gone
\* past its await it has invoked fn exactly once, with an undefined ctx and
\* the call's input.
C4_NoFactoryStillInvokes ==
  \A c \in 1..Len(calls) :
    LET call == calls[c]
    IN call.atInvoke = NoFactory =>
         /\ call.factoryCalls = <<>>
         /\ call.pc = "awaitCtx" => call.awaited.state = "fulfilled"
         /\ call.pc # "awaitCtx" =>
              call.fnCalls = << [fn |-> toolObjs[call.tool].fn, ctx |-> UndefinedCtx,
                                 input |-> call.input] >>

C4_Witness ==
  \E c \in 1..Len(calls) :
    /\ calls[c].atInvoke = NoFactory
    /\ calls[c].pc = "resolved"
    /\ calls[c].result = <<"content", UndefinedCtx, calls[c].input>>

\* C5: when the context factory fails, fn is never invoked and the callback
\* ends rejected with the factory's failure value; when fn fails, the
\* callback ends rejected with fn's failure value.
C5_FailurePassThrough ==
  \A c \in 1..Len(calls) :
    LET call == calls[c]
    IN /\ (call.factoryCalls # <<>>
             /\ FactoryFails(call.factoryCalls[1].fn, call.factoryCalls[1].authInfo)) =>
            /\ call.fnCalls = <<>>
            /\ call.pc \in {"awaitCtx", "rejected"}
            /\ call.pc = "rejected" =>
                 call.result = << FactoryOutcome(call.factoryCalls[1].fn,
                                                 call.factoryCalls[1].authInfo).val >>
       /\ (call.fnCalls # <<>>
             /\ FnOutcome(call.fnCalls[1].fn, call.fnCalls[1].ctx,
                          call.fnCalls[1].input).kind \in {"throw", "reject"}) =>
            /\ call.pc \in {"awaitFn", "rejected"}
            /\ call.pc = "rejected" =>
                 call.result = FnOutcome(call.fnCalls[1].fn, call.fnCalls[1].ctx,
                                         call.fnCalls[1].input).val

\* a call rejected with the failure its handler raised
C5_Witness ==
  \E c \in 1..Len(calls) :
    /\ calls[c].pc = "rejected"
    /\ calls[c].fnCalls # <<>>
    /\ calls[c].result = <<"ErrTool">>

\* C8 as stated: a callback delivers the context built by the factory that
\* was current when the callback was registered.
C8_ContextOfFactoryAtRegister ==
  \A c \in 1..Len(calls) :
    calls[c].fnCalls # <<>> =>
      calls[c].fnCalls[1].ctx = CtxOf(calls[c].regFactory, calls[c].authInfo)

\* C8 (amended): a callback, whenever it was registered, calls the factory
\* that is current when the callback is invoked and delivers the context
\* that factory builds.
C8_ContextOfFactoryAtInvoke ==
  \A c \in 1..Len(calls) :
    /\ calls[c].factoryCalls =
         (IF calls[c].atInvoke = NoFactory THEN <<>>
          ELSE << [fn |-> calls[c].atInvoke, authInfo |-> calls[c].authInfo] >>)
    /\ calls[c].fnCalls # <<>> =>
         calls[c].fnCalls[1].ctx = CtxOf(calls[c].atInvoke, calls[c].authInfo)

\* a callback registered under one factory and invoked after context(fn2)
\* has delivered fn2's context
C8_Witness ==
  \E c \in 1..Len(calls) :
    /\ calls[c].regFactory = "user"
    /\ calls[c].atInvoke = "org"
    /\ calls[c].fnCalls # <<>>
    /\ calls[c].fnCalls[1].ctx = "org1"

====
